---- MODULE Spec2Model ----
(***************************************************************************)
(* Model of benbjohnson/phantomjs (src/phantomjs.go).                      *)
(*                                                                         *)
(* Host side: Process.Open / Process.Close / Process.wait / Process.ping   *)
(* and the WebPage calls that go through Process.mustDoJSON.               *)
(* Engine side: the JavaScript shim (the dispatcher, createRef, deleteRef, *)
(* ref, handleWebpageCreate/Open/Pages/Page/Close, an accessor handler and *)
(* handleNotFound).                                                        *)
(*                                                                         *)
(* Directories and operating-system processes are numbered 1, 2, ...;      *)
(* path = 0 stands for the empty string and cmd = 0 for a nil *exec.Cmd.   *)
(***************************************************************************)
EXTENDS Integers, Sequences, FiniteSets, TLC

\* ------------------------------------------------------------------ bounds
\* Number of Process.Open calls made on the one Process.
MaxOpens == 2
\* Number of ticker ticks consumed by one Process.wait loop.
MaxTicks == 2
\* Number of page objects the engine creates (webpage.create and popups).
MaxObjs == 3
\* Number of callers that call Process.CreateWebPage at the same time.
MaxCallers == 3

\* ----------------------------------------------------------------- state
VARIABLES
    \* Process fields (phantomjs.go:38-51)
    path,       \* p.path: 0 is "", d > 0 is the temporary directory d
    cmd,        \* p.cmd: 0 is nil, n > 0 is the command whose process is n
    \* position of the host's single caller
    pc,         \* "idle", or the statement of Open that runs next
    call,       \* the Process method that ran last: "none", "Open", "Close"
    ret,        \* what that method returned
    log,        \* the system calls that method made, in order
    prev,       \* how the Process method before that one ended
    nOpens,     \* Open calls made so far
    ticks,      \* ticks consumed by the running wait loop
    timerFired, \* the 30 s timer of the running wait loop has fired
    curDir,     \* directory created by the last Open call (0: none)
    curProc,    \* process started by the last Open call (0: none)
    \* operating system
    dirs,       \* directories that exist
    shimIn,     \* directories that contain shim.js
    auxIn,      \* directories that contain auxiliary files of the caller
    staged,     \* directories in which the caller has staged such files
    nDirs,      \* directories created so far
    nProcs,     \* processes started so far
    running,    \* processes that are running
    waited,     \* processes that have been waited for
    script,     \* script[n]: directory whose shim.js process n was given
    listener,   \* the process serving the port (0: nobody)
    \* engine (the shim running inside the listener)
    refID,      \* var refID
    refs,       \* var refs: function from key (string) to page object
    nObjs,      \* page objects created so far
    owner,      \* owner[o]: the page that owns page o (0: top-level page)
    wname,      \* wname[o]: window name of page o
    props,      \* props[o]: clipRect, viewportSize, scrollPosition of page o
    closed,     \* pages on which close() has been called
    cascaded,   \* pages closed by the Close of a page that owns them
    minted,     \* the (id, object) pairs createRef minted, in order
    \* host-side handles and the last WebPage / CreateWebPage call
    handles,    \* ids held by the host in *Ref values
    seen,       \* <<object, id>> pairs handed to the host
    last,       \* the last RPC call and its outcome
    stale,      \* ids of the handles the host held when Close last ran
    inflight,   \* the WebPage.Open call waiting for its response
    creates     \* creates[c]: the CreateWebPage call of concurrent caller c

procVars == <<path, cmd, pc, call, ret, log, prev, nOpens, ticks,
              timerFired, curDir, curProc>>
osVars == <<dirs, shimIn, auxIn, staged, nDirs, nProcs, running, waited,
            script, listener>>
engineVars == <<refID, refs, nObjs, owner, wname, props, closed, cascaded,
                minted>>
hostVars == <<handles, seen, last>>
flightVars == <<stale, inflight, creates>>
vars == <<procVars, osVars, engineVars, hostVars, flightVars>>

Range(s) == {s[i] : i \in DOMAIN s}

\* Window names a page gives the windows it opens.
Names == {"win1", "win2"}

\* The value of `last` before any RPC call.
NoCall == [op |-> "none", ref |-> "", kind |-> "none", status |-> 0,
           ids |-> <<>>, objs |-> <<>>, wasClosed |-> FALSE,
           wasCascaded |-> FALSE,
           url |-> "", text |-> "", err |-> "", decodes |-> TRUE,
           got |-> <<>>, panics |-> FALSE, nav |-> "", wasStale |-> FALSE,
           closeRan |-> FALSE, sent |-> <<>>,
     steps |-> <<>>, during |-> "", requests |-> 0]

\* The value of `creates` while no concurrent caller has called.
NoCreates == [c \in {} |-> 0]

\* The value of `inflight` while no WebPage.Open waits for its response.
NoFlight == [ref |-> "", engine |-> 0, closeRan |-> FALSE]

\* A page as the engine creates it, reduced to the three properties the
\* host both writes and reads: an empty clipping rectangle
\* (TestWebPage_ClipRect), the engine's initial viewport and a scroll
\* position of zeros.
NewPage ==
    [clipRect |-> [top |-> 0, left |-> 0, width |-> 0, height |-> 0],
     viewportSize |-> [width |-> 400, height |-> 300],
     scrollPosition |-> [top |-> 0, left |-> 0],
     settings |-> [javascriptEnabled |-> TRUE, loadImages |-> TRUE,
                   localToRemoteUrlAccessEnabled |-> FALSE,
                   userAgent |-> "Mozilla/5.0", XSSAuditingEnabled |-> FALSE,
                   webSecurityEnabled |-> TRUE]]

\* The empty reference table: var refs = {}.
EmptyRefs == [k \in {} |-> 0]

\* ------------------------------------------------------------------ Init
\* NewProcess (phantomjs.go:54-61): path and cmd are left at their zero
\* values; nothing exists on the machine and no engine is running.
Init ==
    /\ path = 0 /\ cmd = 0
    /\ pc = "idle" /\ call = "none" /\ ret = "none" /\ log = <<>>
    /\ prev = "none"
    /\ nOpens = 0 /\ ticks = 0 /\ timerFired = FALSE
    /\ curDir = 0 /\ curProc = 0
    /\ dirs = {} /\ shimIn = {} /\ auxIn = {} /\ staged = {}
    /\ nDirs = 0 /\ nProcs = 0
    /\ running = {} /\ waited = {} /\ script = <<>>
    /\ listener = 0
    /\ refID = 0 /\ refs = EmptyRefs
    /\ nObjs = 0 /\ owner = <<>> /\ wname = <<>> /\ closed = {}
    /\ props = <<>>
    /\ cascaded = {} /\ minted = <<>>
    /\ handles = {} /\ seen = {} /\ last = NoCall
    /\ stale = {} /\ inflight = NoFlight /\ creates = NoCreates

\* The state of a freshly started shim: refID = 0, refs = {}, no pages.
\* `seen` follows the pages of the running engine.
EngineFresh ==
    /\ refID' = 0 /\ refs' = EmptyRefs
    /\ nObjs' = 0 /\ owner' = <<>> /\ wname' = <<>> /\ closed' = {}
    /\ props' = <<>>
    /\ cascaded' = {} /\ minted' = <<>>
    /\ seen' = {}

\* How the Process method that ran last ended, as the next one finds it:
\* which method it was, and whether the directory and the process that the
\* Process records are gone.
Ended ==
    IF call = "none" THEN "none"
    ELSE IF call = "Open" /\ ret = "nil" THEN "Open"
    ELSE (IF call = "Open" THEN "failed Open" ELSE "Close")
         \o (IF path \notin dirs /\ cmd \notin running THEN ""
             ELSE ", residue")

\* ------------------------------------------------------- Process.Close
\* Close without its nil check on p.cmd.
CmdNotNilUnchecked(c) == TRUE

\* if p.cmd != nil
CmdNotNil(c) == c # 0

\* Close without its check of p.path.
PathNotEmptyUnchecked(q) == TRUE

\* if p.path != ""
PathNotEmpty(q) == q # 0

\* p.cmd.Process.Kill(): os.Process.Kill fails ("process already
\* finished") once the process has been waited for.
KillErr(n) == n \in waited

\* p.cmd.Wait(): returns when the process has exited; the process is then
\* reaped.  Its error is discarded by Close.
WaitFor(n) == waited \cup {n}

\* The error p.cmd.Wait() returns: a process that was killed did not exit
\* successfully (*exec.ExitError, "signal: killed"), and a command that
\* was waited for before reports that ("exec: Wait was already called").
\* Close does not look at it.
WaitErr(n) ==
    IF n \in waited THEN "exec: Wait was already called"
    ELSE "signal: killed"

\* os.RemoveAll(p.path): removes the directory with everything in it; a
\* path that does not exist is not an error.  `fail` is the operating
\* system refusing the removal.
RemoveAllErr(q, fail) == fail /\ q \in dirs

\* A removal that reports success and removes nothing.
RemoveAllNothing(q, fail) == dirs

RemoveAll(q, fail) == IF RemoveAllErr(q, fail) THEN dirs ELSE dirs \ {q}

\* Close that drops the error of os.RemoveAll.
CloseErrKillOnly(killErr, rmErr) == IF killErr THEN "kill" ELSE "nil"

\* The named result err of Close: each step stores its error only while
\* err is still nil.
CloseErr(killErr, rmErr) ==
    IF killErr THEN "kill" ELSE IF rmErr THEN "remove" ELSE "nil"

\* Close that returns as soon as the kill fails.
GoesOnAfterKillUnlessErr(killErr) == ~killErr

\* if e := p.cmd.Process.Kill(); e != nil && err == nil { err = e }: the
\* error is stored and nothing returns, so p.cmd.Wait() and the removal
\* follow whatever Kill returned.
GoesOnAfterKill(killErr) == TRUE

\* Process.Close as a function of the state it runs in.
CloseResult(rmFail) ==
    LET enter   == CmdNotNil(cmd)
        panics  == enter /\ cmd = 0          \* p.cmd.Process on a nil p.cmd
        kills   == enter /\ ~panics
        killErr == kills /\ KillErr(cmd)
        goesOn  == kills => GoesOnAfterKill(killErr)
        waits   == kills /\ goesOn
        removes == ~panics /\ goesOn /\ PathNotEmpty(path)
        rmErr   == removes /\ RemoveAllErr(path, rmFail)
    IN  [ret     |-> IF panics THEN "panic" ELSE CloseErr(killErr, rmErr),
         running |-> IF kills THEN running \ {cmd} ELSE running,
         waited  |-> IF waits THEN WaitFor(cmd) ELSE waited,
         dirs    |-> IF removes THEN RemoveAll(path, rmFail) ELSE dirs,
         log     |-> (IF kills
                      THEN <<IF killErr THEN "Kill_err" ELSE "Kill">>
                      ELSE <<>>)
                     \o (IF waits
                         THEN <<IF WaitErr(cmd) # "nil" THEN "Wait_err"
                                ELSE "Wait">>
                         ELSE <<>>)
                     \o (IF removes
                         THEN <<IF rmErr THEN "RemoveAll_err"
                                ELSE "RemoveAll">>
                         ELSE <<>>)]

\* The effect of a Close result on the machine: the killed process no
\* longer serves the port, and its reference table dies with it.
ApplyClose(r) ==
    /\ running' = r.running
    /\ waited' = r.waited
    /\ dirs' = r.dirs
    /\ shimIn' = shimIn \cap r.dirs
    /\ auxIn' = auxIn \cap r.dirs
    /\ UNCHANGED <<staged, nDirs, nProcs, script>>
    /\ IF listener # 0 /\ listener \notin r.running
       THEN listener' = 0 /\ EngineFresh
       ELSE UNCHANGED <<listener, engineVars, seen>>

\* The caller calls p.Close().  The handles the host holds were created
\* before this Close; a WebPage.Open waiting for its response has had a
\* Close run during its round trip.
Close ==
    /\ pc = "idle"
    /\ stale' = stale \cup handles
    /\ inflight' = IF inflight = NoFlight THEN inflight
                   ELSE [inflight EXCEPT !.closeRan = TRUE]
    /\ \E rmFail \in BOOLEAN :
         LET r == CloseResult(rmFail) IN
           /\ ApplyClose(r)
           /\ call' = "Close" /\ ret' = r.ret /\ log' = r.log
    /\ prev' = Ended
    /\ UNCHANGED <<path, cmd, pc, nOpens, ticks, timerFired, curDir, curProc,
                   handles, last, creates>>

\* -------------------------------------------------------- Process.Open
\* Open that returns the error without calling p.Close().
OpenRollbackMissing(rmFail) ==
    [ret |-> "nil", running |-> running, waited |-> waited, dirs |-> dirs,
     log |-> <<>>]

\* }(); err != nil { p.Close(); return err }
OpenRollback(rmFail) == CloseResult(rmFail)

\* Open returns err after the rollback; lg is the log of the call so far.
OpenFail(err, lg) ==
    \E rmFail \in BOOLEAN :
      LET r == OpenRollback(rmFail) IN
        /\ ApplyClose(r)
        /\ call' = "Open"
        /\ ret' = IF r.ret = "panic" THEN "panic" ELSE err
        /\ log' = lg \o r.log
        /\ pc' = "idle"

\* The caller calls p.Open(): the state of the call that begins.
OpenBegin ==
    /\ pc = "idle" /\ nOpens < MaxOpens
    /\ nOpens' = nOpens + 1
    /\ prev' = Ended
    /\ ticks' = 0 /\ timerFired' = FALSE /\ curProc' = 0

\* path, err := ioutil.TempDir("", "phantomjs-"); p.path = path
OpenTempDir ==
    /\ OpenBegin
    /\ nDirs' = nDirs + 1
    /\ dirs' = dirs \cup {nDirs + 1}
    /\ path' = nDirs + 1
    /\ curDir' = nDirs + 1
    /\ call' = "Open" /\ ret' = "none" /\ log' = <<"TempDir">>
    /\ pc' = "write"
    /\ UNCHANGED <<cmd, shimIn, auxIn, staged, nProcs, running, waited,
                   script, listener, engineVars, hostVars,
                   flightVars>>

\* ioutil.TempDir fails: return err, before p.path is assigned.
OpenTempDirErr ==
    /\ OpenBegin
    /\ curDir' = 0
    /\ OpenFail("tempdir", <<"TempDir_err">>)
    /\ UNCHANGED <<path, cmd, handles, last,
                   flightVars>>

\* ioutil.WriteFile(scriptPath, []byte(shim), 0600)
OpenWriteFile ==
    /\ pc = "write"
    /\ shimIn' = shimIn \cup {curDir}
    /\ log' = Append(log, "WriteFile")
    /\ pc' = "start"
    /\ UNCHANGED <<path, cmd, call, ret, prev, nOpens, ticks, timerFired,
                   curDir, curProc, dirs, auxIn, staged, nDirs, nProcs,
                   running, waited, script, listener, engineVars, hostVars,
                   flightVars>>

OpenWriteFileErr ==
    /\ pc = "write"
    /\ OpenFail("writefile", Append(log, "WriteFile_err"))
    /\ UNCHANGED <<path, cmd, prev, nOpens, ticks, timerFired, curDir,
                   curProc, handles, last,
                   flightVars>>

\* cmd.Start() succeeds; p.cmd = cmd.  The new process runs the script at
\* scriptPath, which lies in the directory this call created.
OpenStart ==
    /\ pc = "start"
    /\ nProcs' = nProcs + 1
    /\ running' = running \cup {nProcs + 1}
    /\ script' = Append(script, curDir)
    /\ cmd' = nProcs + 1
    /\ curProc' = nProcs + 1
    /\ log' = Append(log, "Start")
    /\ pc' = "wait"
    /\ UNCHANGED <<path, call, ret, prev, nOpens, ticks, timerFired, curDir,
                   dirs, shimIn, auxIn, staged, nDirs, waited, listener,
                   engineVars, hostVars,
                   flightVars>>

\* An Open that assigns p.cmd before it looks at the error of cmd.Start().
CmdOnStartErrRecorded == nProcs + 1

\* p.cmd when cmd.Start() has failed: the return comes before p.cmd = cmd,
\* so it is what it was.
CmdOnStartErr == cmd

\* cmd.Start() fails: return err, before p.cmd is assigned.
OpenStartErr ==
    /\ pc = "start"
    /\ OpenFail("start", Append(log, "Start_err"))
    /\ cmd' = CmdOnStartErr
    /\ UNCHANGED <<path, prev, nOpens, ticks, timerFired, curDir,
                   curProc, handles, last,
                   flightVars>>

\* ------------------------------------------- Process.wait, Process.ping
\* What a GET /ping can meet: the shim serving the port answers 200 "ok"
\* (handlePing); with nobody serving it the connection is refused, or
\* something else on the port answers with another status.
PingOutcomes == IF listener # 0 THEN {"200"} ELSE {"refused", "non200"}

\* ping without its status check: any response counts as success.
PingErrAnyResponse(outcome) == outcome = "refused"

\* Process.ping: nil exactly for a response with status 200.
PingErr(outcome) == outcome # "200"

\* wait that gives up on the first failed ping.
WaitOnPingFailFast(outcome) ==
    IF outcome # "200" THEN "return err" ELSE "return nil"

\* case <-ticker.C: if err := p.ping(); err == nil { return nil }
\* What wait does with the result of a ping.
WaitOnPing(outcome) == IF PingErr(outcome) THEN "continue" ELSE "return nil"

\* A tick whose ping decides the loop: wait returns and so does Open.
WaitTickReturn ==
    /\ pc = "wait" /\ ticks < MaxTicks
    /\ \E outcome \in PingOutcomes :
         /\ WaitOnPing(outcome) # "continue"
         /\ IF WaitOnPing(outcome) = "return nil"
            THEN /\ ret' = "nil" /\ pc' = "idle" /\ call' = "Open"
                 /\ log' = Append(log, "ping_" \o outcome)
                 /\ UNCHANGED <<osVars, engineVars, seen>>
            ELSE /\ OpenFail("ping", Append(log, "ping_" \o outcome))
    /\ ticks' = ticks + 1
    /\ UNCHANGED <<path, cmd, prev, nOpens, timerFired, curDir, curProc,
                   handles, last,
                   flightVars>>

\* A tick whose ping fails: the loop goes round again.
WaitTickRetry ==
    /\ pc = "wait" /\ ticks < MaxTicks
    /\ \E outcome \in PingOutcomes :
         /\ WaitOnPing(outcome) = "continue"
         /\ log' = Append(log, "ping_" \o outcome)
    /\ ticks' = ticks + 1
    /\ UNCHANGED <<path, cmd, pc, call, ret, prev, nOpens, timerFired,
                   curDir, curProc, osVars, engineVars, hostVars,
                   flightVars>>

\* http.Get(p.URL() + "/ping") meets a peer that accepts the connection
\* and does not answer.  http.Get uses http.DefaultClient, which has no
\* timeout: ping does not return, and wait does not come back to its
\* select while it is in ping.
PingBlocks ==
    /\ pc = "wait" /\ ticks < MaxTicks
    /\ pc' = "ping"
    /\ ticks' = ticks + 1
    /\ log' = Append(log, "ping_sent")
    /\ UNCHANGED <<path, cmd, call, ret, prev, nOpens, timerFired, curDir,
                   curProc, osVars, engineVars, hostVars, flightVars>>

\* The peer drops the unanswered connection: http.Get returns an error,
\* ping returns it and the loop goes round again.
PingConnLost ==
    /\ pc = "ping"
    /\ WaitOnPing("refused") = "continue"
    /\ pc' = "wait"
    /\ log' = Append(log, "ping_refused")
    /\ UNCHANGED <<path, cmd, call, ret, prev, nOpens, ticks, timerFired,
                   curDir, curProc, osVars, engineVars, hostVars,
                   flightVars>>

\* The 30 second timer fires, wherever the loop is.
TimerFire ==
    /\ pc \in {"wait", "ping"} /\ ~timerFired
    /\ timerFired' = TRUE
    /\ UNCHANGED <<path, cmd, pc, call, ret, log, prev, nOpens, ticks,
                   curDir, curProc, osVars, engineVars, hostVars,
                   flightVars>>

\* case <-timer.C: return errors.New("timeout")
WaitTimeout ==
    /\ pc = "wait" /\ timerFired
    /\ OpenFail("timeout", Append(log, "timer"))
    /\ UNCHANGED <<path, cmd, prev, nOpens, ticks, timerFired, curDir,
                   curProc, handles, last,
                   flightVars>>

\* ------------------------------------------------- the shim: REFS
DigitChar == <<"0", "1", "2", "3", "4", "5", "6", "7", "8", "9">>

\* refID.toString(): the decimal text of a non-negative integer.
RECURSIVE toString(_)
toString(n) ==
    IF n < 10 THEN DigitChar[n + 1]
    ELSE toString(n \div 10) \o DigitChar[(n % 10) + 1]

\* The JavaScript value undefined, among page objects 1, 2, ...
Undefined == 0

\* function ref(id) { return refs[id]; }
ref(table, id) == IF id \in DOMAIN table THEN table[id] ELSE Undefined

\* A scan that never finds the value.
KeysOfNothing(table, value) == {}

\* The keys under which the table holds value.
KeysOf(table, value) == {k \in DOMAIN table : table[k] = value}

\* createRef that forgets refID++: every new reference gets the same id.
createRefNoIncrement(table, counter, value) ==
    IF KeysOf(table, value) # {}
    THEN [refs |-> table, refID |-> counter, isNew |-> FALSE,
          ret |-> [shape |-> "string",
                   id |-> CHOOSE k \in KeysOf(table, value) : TRUE]]
    ELSE [refs |-> (toString(counter + 1) :> value) @@ table,
          refID |-> counter, isNew |-> TRUE,
          ret |-> [shape |-> "object", id |-> toString(counter + 1)]]

\* function createRef(value): an existing key is returned as the bare key
\* (a string); a new reference is returned as the object {id: key}.
createRef(table, counter, value) ==
    IF KeysOf(table, value) # {}
    THEN [refs |-> table, refID |-> counter, isNew |-> FALSE,
          ret |-> [shape |-> "string",
                   id |-> CHOOSE k \in KeysOf(table, value) : TRUE]]
    ELSE [refs |-> (toString(counter + 1) :> value) @@ table,
          refID |-> counter + 1, isNew |-> TRUE,
          ret |-> [shape |-> "object", id |-> toString(counter + 1)]]

\* delete(refs, key): the operand of delete is the parenthesised comma
\* expression (refs, key).  The comma operator yields the value of key,
\* not a property reference, so delete removes nothing and yields true.
DeleteComma(table, key) == table

\* function deleteRef(value): for every key holding value, delete(refs, key)
RECURSIVE deleteRefKeys(_, _, _)
deleteRefKeys(table, keys, value) ==
    IF keys = {} THEN table
    ELSE LET k == CHOOSE x \in keys : TRUE
         IN  deleteRefKeys(IF k \in DOMAIN table /\ table[k] = value
                           THEN DeleteComma(table, k) ELSE table,
                           keys \ {k}, value)

deleteRef(table, value) == deleteRefKeys(table, DOMAIN table, value)

\* ----------------------------------------------- the shim: page objects
\* A set of page objects in creation order.
RECURSIVE InOrder(_)
InOrder(S) ==
    IF S = {} THEN <<>>
    ELSE LET m == CHOOSE x \in S : \A y \in S : x <= y
         IN  <<m>> \o InOrder(S \ {m})

\* page.pages: the pages the page owns that have not been closed.
Pages(o) == InOrder({c \in 1..nObjs : owner[c] = o /\ c \notin closed})

\* page.getPage(name): the owned page with that window name, or null
\* (Undefined here).
GetPage(o, name) ==
    LET m == {c \in Range(Pages(o)) : wname[c] = name}
    IN  IF m = {} THEN Undefined ELSE CHOOSE c \in m : \A d \in m : c <= d

\* All pages a page owns, directly or through pages it owns.  The engine
\* destroys them together with the page.
RECURSIVE Owned(_)
Owned(o) ==
    LET kids == {c \in 1..nObjs : owner[c] = o}
    IN  kids \cup UNION {Owned(c) : c \in kids}

\* page.pages.map(function(p) { return createRef(p); })
RECURSIVE MapCreateRef(_, _, _)
MapCreateRef(table, counter, ps) ==
    IF ps = <<>>
    THEN [refs |-> table, refID |-> counter, rets |-> <<>>, news |-> <<>>]
    ELSE LET r == createRef(table, counter, Head(ps))
             t == MapCreateRef(r.refs, r.refID, Tail(ps))
         IN  [refs |-> t.refs, refID |-> t.refID,
              rets |-> <<r.ret>> \o t.rets,
              news |-> (IF r.isNew
                        THEN <<[id |-> r.ret.id, obj |-> Head(ps),
                                afterClose |-> closed # {}]>>
                        ELSE <<>>) \o t.news]

\* for (i = 0; i < page.pages.length; i++) { ...; deleteRef(page.pages[i]) }
RECURSIVE DeleteRefs(_, _)
DeleteRefs(table, ps) ==
    IF ps = <<>> THEN table
    ELSE DeleteRefs(deleteRef(table, Head(ps)), Tail(ps))

\* The page objects that have an entry in the table.
Held(table) == {table[k] : k \in DOMAIN table}

\* The loop of handleWebpageClose, statement by statement: for each owned
\* page, page.pages[i].close() and then deleteRef(page.pages[i]).  Each
\* step is recorded with the objects the table holds after it.
RECURSIVE CloseOwnedSteps(_, _)
CloseOwnedSteps(table, ps) ==
    IF ps = <<>> THEN <<>>
    ELSE LET t == deleteRef(table, Head(ps))
         IN  <<[act |-> "close", obj |-> Head(ps), owned |-> TRUE,
                held |-> Held(table)],
               [act |-> "deleteRef", obj |-> Head(ps), owned |-> TRUE,
                held |-> Held(t)]>>
             \o CloseOwnedSteps(t, Tail(ps))

\* handleWebpageClose with the loop after the page's own close and delete.
handleWebpageCloseSteps(table, key, page, ps) ==
    LET t == DeleteComma(table, key)
    IN  <<[act |-> "close", obj |-> page, owned |-> FALSE,
           held |-> Held(table)],
          [act |-> "delete", obj |-> page, owned |-> FALSE,
           held |-> Held(t)]>>
        \o CloseOwnedSteps(t, ps)

\* A handler that uses a page which was closed in an earlier request uses
\* an object the engine has destroyed: the engine either raises an
\* exception (answered 500 by the dispatcher's catch) or carries on with
\* an empty page (answered 200).
StatusesFor(page) ==
    IF page = Undefined THEN {500}      \* TypeError: property of undefined
    ELSE IF page \in closed THEN {200, 500}
    ELSE {200}

\* ------------------------------------------------ the shim: dispatcher
\* The case labels of the dispatcher's switch (request.url) that the model
\* has a handler for.
Routes == {"/ping", "/webpage/CanGoBack", "/webpage/Close",
           "/webpage/Create", "/webpage/Open", "/webpage/Page",
           "/webpage/Pages",
           "/webpage/ClipRect", "/webpage/SetClipRect",
           "/webpage/ScrollPosition", "/webpage/SetScrollPosition",
           "/webpage/ViewportSize", "/webpage/SetViewportSize",
           "/webpage/Settings", "/webpage/SetSettings"}

\* Request paths the switch has no case for.
UnknownPaths == {"/webpage/Nope"}

\* The path each host method passes to mustDoJSON.
Route(op) ==
    CASE op = "Create"   -> "/webpage/Create"
      [] op = "Open"     -> "/webpage/Open"
      [] op = "Page"     -> "/webpage/Page"
      [] op = "Pages"    -> "/webpage/Pages"
      [] op = "Close"    -> "/webpage/Close"
      [] op = "Accessor" -> "/webpage/CanGoBack"
      [] op = "ClipRect" -> "/webpage/ClipRect"
      [] op = "SetClipRect" -> "/webpage/SetClipRect"
      [] op = "ScrollPosition" -> "/webpage/ScrollPosition"
      [] op = "SetScrollPosition" -> "/webpage/SetScrollPosition"
      [] op = "ViewportSize" -> "/webpage/ViewportSize"
      [] op = "SetViewportSize" -> "/webpage/SetViewportSize"
      [] op = "Settings" -> "/webpage/Settings"
      [] op = "SetSettings" -> "/webpage/SetSettings"
      [] OTHER           -> "/webpage/Nope"

\* switch (request.url) { case ...: return handleX(...);
\*                        default: return handleNotFound(...); }
Dispatch(url) == IF url \in Routes THEN "handler" ELSE "handleNotFound"

\* A default case that answers as a handler that threw would.
handleNotFoundAsError == [statusCode |-> 500, text |-> "not found"]

\* function handleNotFound: statusCode = 404; write('not found')
handleNotFound == [statusCode |-> 404, text |-> "not found"]

\* e.message of the exception a handler throws when ref() gave it
\* undefined or a closed page.
ExceptionMessage == "undefined is not an object"

\* A catch block that writes the message alone.
CatchBodyBare(url, message) == message

\* catch(e) { response.statusCode = 500;
\*            response.write(request.url + ": " + e.message); }
CatchBody(url, message) == url \o ": " \o message

\* ------------------------------------------------ Process.mustDoJSON
\* mustDoJSON that ignores the error of json.Unmarshal.
MustDoJSONIgnoreDecode(status, decodes) ==
    IF status = 404 THEN "notfound"
    ELSE IF status = 500 THEN "exception"
    ELSE "ok"

\* What mustDoJSON does with a response: 404 and 500 panic, any other
\* status is decoded when a result is expected, and a body that does not
\* decode panics.
MustDoJSON(status, decodes) ==
    IF status = 404 THEN "notfound"
    ELSE IF status = 500 THEN "exception"
    ELSE IF ~decodes THEN "unmarshal"
    ELSE "ok"

\* The ways a call ends in which mustDoJSON calls panic(): the error of
\* http.DefaultClient.Do, a 404, a 500, a body that does not decode.
Panics(kind) == kind \in {"transport", "notfound", "exception", "unmarshal"}

\* The error value mustDoJSON panics with.
PanicValue(kind, urlPath, text) ==
    CASE kind = "notfound"  -> "not found: " \o urlPath
      [] kind = "exception" -> text
      [] kind = "unmarshal" -> "unmarshal error"
      [] OTHER              -> ""

\* mustDoJSON that sends the request again when the first attempt failed
\* in the transport.
DoCallsRetryTransport(kind) == IF kind = "transport" THEN 2 ELSE 1

\* The calls of http.DefaultClient.Do one mustDoJSON makes: the single call
\* of line 202, outside any loop; every failure after it is a panic.
DoCalls(kind) == 1

\* json.Unmarshal into refJSON (struct { ID string `json:"id"` }): a JSON
\* object decodes, a JSON string does not.
RefDecodes(r) == r.shape = "object"

\* The record kept of a call: the request, the response and what
\* mustDoJSON made of it.  `got` is what the method hands its caller, and
\* `during` the handle of the WebPage.Open request that was unanswered when
\* the response was written.
Outcome(op, urlPath, h, status, text, decodes, ids, objs) ==
    LET kind == MustDoJSON(status, decodes) IN
    [op |-> op, ref |-> h, kind |-> kind,
     status |-> status, ids |-> ids, objs |-> objs,
     wasClosed |-> ref(refs, h) \in closed,
     wasCascaded |-> ref(refs, h) \in cascaded,
     url |-> urlPath, text |-> text,
     err |-> PanicValue(kind, urlPath, text),
     decodes |-> decodes,
     got |-> IF kind = "ok" THEN ids ELSE <<>>,
     panics |-> Panics(kind), nav |-> "",
     wasStale |-> h \in stale, closeRan |-> FALSE, sent |-> <<>>,
     steps |-> <<>>, during |-> inflight.ref,
     requests |-> DoCalls(kind)]

\* The record kept of an RPC call on handle h.
Called(op, h, status, decodes, ids, objs) ==
    Outcome(op, Route(op), h, status,
            IF status = 500 THEN CatchBody(Route(op), ExceptionMessage)
            ELSE "",
            decodes, ids, objs)

\* The record of a call whose http.DefaultClient.Do returned err.
Transport(op, h, err) ==
    [op |-> op, ref |-> h, kind |-> "transport", status |-> 0,
     ids |-> <<>>, objs |-> <<>>, wasClosed |-> FALSE,
     wasCascaded |-> FALSE,
     url |-> Route(op), text |-> "", err |-> err, decodes |-> TRUE,
     got |-> <<>>, panics |-> Panics("transport"), nav |-> "",
     wasStale |-> h \in stale, closeRan |-> FALSE, sent |-> <<>>,
     steps |-> <<>>, during |-> "",
     requests |-> DoCalls("transport")]

\* The methods that pass mustDoJSON a resp to decode into; Close and the
\* setters pass nil.
Expects(op) ==
    op \in {"Create", "Open", "Page", "Pages", "Accessor", "ClipRect",
            "ScrollPosition", "ViewportSize", "Settings"}

\* mustDoJSON that decodes the body whether or not a resp was passed.
BodyReadAlways(expects, decodes) == decodes

\* if resp != nil { ReadAll; json.Unmarshal }: whether the body, as far as
\* mustDoJSON looks at it, decodes.  Without a resp it is not read.
BodyRead(expects, decodes) == ~expects \/ decodes

\* The statuses of a response that does not come from the shim, which
\* writes 200, 404 and 500 only.
ResponseStatuses == {200, 204, 302, 400, 404, 500, 503}

\* A method call answered by something else on the port while no engine
\* serves it: any status, with a body that decodes into resp or does not.
AnyResponse ==
    /\ pc = "idle" /\ listener = 0
    /\ \E op \in {"Create", "Close"}, status \in ResponseStatuses,
          decodes \in BOOLEAN :
         last' = [Outcome(op, Route(op), "", status,
                          IF status = 500 THEN "Internal Server Error"
                          ELSE "",
                          BodyRead(Expects(op), decodes), <<>>, <<>>)
                    EXCEPT !.decodes = decodes]
    /\ UNCHANGED <<procVars, osVars, engineVars, handles, seen,
                   flightVars>>

\* http.DefaultClient.Do fails when nobody serves the port: panic(err).
CallRefused ==
    /\ pc = "idle" /\ listener = 0
    /\ \E op \in {"Create", "Page", "Pages", "Close", "Accessor"} :
         last' = Transport(op, "", "connection refused")
    /\ UNCHANGED <<procVars, osVars, engineVars, handles, seen,
                   flightVars>>

\* A request for a path the dispatcher has no case for.
UnknownRoute ==
    /\ pc = "idle" /\ listener # 0
    /\ \E urlPath \in Routes \cup UnknownPaths :
         /\ Dispatch(urlPath) = "handleNotFound"
         /\ last' = Outcome("Unknown", urlPath, "",
                            handleNotFound.statusCode, handleNotFound.text,
                            TRUE, <<>>, <<>>)
    /\ UNCHANGED <<procVars, osVars, engineVars, handles, seen,
                   flightVars>>

\* Process.CreateWebPage -> handleWebpageCreate:
\* var ref = createRef(webpage.create()); write {ref: ref}
CreateWebPage ==
    /\ pc = "idle" /\ listener # 0 /\ nObjs < MaxObjs
    /\ LET o == nObjs + 1
           r == createRef(refs, refID, o)
       IN  /\ nObjs' = o
           /\ owner' = Append(owner, 0)
           /\ wname' = Append(wname, "")
           /\ props' = Append(props, NewPage)
           /\ refs' = r.refs /\ refID' = r.refID
           /\ minted' = IF r.isNew
                        THEN Append(minted, [id |-> r.ret.id, obj |-> o,
                                             afterClose |-> closed # {}])
                        ELSE minted
           /\ last' = Called("Create", "", 200, RefDecodes(r.ret),
                             <<r.ret.id>>, <<o>>)
           /\ IF RefDecodes(r.ret)
              THEN /\ handles' = handles \cup {r.ret.id}
                   /\ seen' = seen \cup {<<o, r.ret.id>>}
              ELSE UNCHANGED <<handles, seen>>
    /\ UNCHANGED <<procVars, osVars, flightVars, closed, cascaded>>

\* The goroutines that call Process.CreateWebPage at the same time.
Callers == 1..MaxCallers

\* Caller c calls p.CreateWebPage(): mustDoJSON sends POST /webpage/Create
\* and waits for the response.  `at` is the id counter at that moment.
SendCreate ==
    /\ pc = "idle" /\ listener # 0
    /\ \E c \in Callers \ DOMAIN creates :
         creates' = (c :> [state |-> "sent", at |-> refID, id |-> "",
                           obj |-> 0, kind |-> "none"]) @@ creates
    /\ UNCHANGED <<procVars, osVars, engineVars, hostVars, stale, inflight>>

\* A handler whose createRef works on the counter as it was when the
\* request arrived.
HandlerCounterAtArrival(at, counter) == at

\* The id counter createRef reads in the handler of a request that arrived
\* when the counter was at: the current one.  The engine runs a handler
\* from its first statement to its last before it takes another request.
HandlerCounter(at, counter) == counter

\* The engine takes one of the waiting /webpage/Create requests and runs
\* handleWebpageCreate on it; the caller receives the response.
HandleCreate ==
    /\ pc = "idle" /\ listener # 0 /\ nObjs < MaxObjs
    /\ \E c \in DOMAIN creates :
         /\ creates[c].state = "sent"
         /\ LET o == nObjs + 1
                r == createRef(refs, HandlerCounter(creates[c].at, refID), o)
                kind == MustDoJSON(200, RefDecodes(r.ret))
            IN  /\ nObjs' = o
                /\ owner' = Append(owner, 0)
                /\ wname' = Append(wname, "")
                /\ props' = Append(props, NewPage)
                /\ refs' = r.refs /\ refID' = r.refID
                /\ minted' = Append(minted, [id |-> r.ret.id, obj |-> o,
                                             afterClose |-> closed # {}])
                /\ creates' = [creates EXCEPT ![c] =
                                  [state |-> "done", at |-> @.at,
                                   id |-> r.ret.id, obj |-> o,
                                   kind |-> kind]]
                /\ handles' = IF kind = "ok" THEN handles \cup {r.ret.id}
                              ELSE handles
                /\ seen' = IF kind = "ok" THEN seen \cup {<<o, r.ret.id>>}
                           ELSE seen
    /\ UNCHANGED <<procVars, osVars, closed, cascaded, last, stale, inflight>>

\* A page opens a window (a link with a target, window.open): the engine
\* creates a page owned by it.
EnginePopup ==
    /\ listener # 0 /\ nObjs < MaxObjs
    /\ \E o \in 1..nObjs, name \in Names :
         /\ o \notin closed
         /\ GetPage(o, name) = Undefined
         /\ owner' = Append(owner, o)
         /\ wname' = Append(wname, name)
    /\ props' = Append(props, NewPage)
    /\ nObjs' = nObjs + 1
    /\ UNCHANGED <<procVars, osVars, refID, refs, closed, cascaded, minted,
                   hostVars,
                   flightVars>>

\* WebPage.Page(name) -> handleWebpagePage
WebPagePage ==
    /\ pc = "idle" /\ listener # 0
    /\ \E h \in handles, name \in Names :
       \E status \in StatusesFor(ref(refs, h)) :
         LET page == ref(refs, h)
             p == IF status = 200 /\ page \notin closed
                  THEN GetPage(page, name) ELSE Undefined
             r == createRef(refs, refID, p)
         IN  IF p = Undefined
             THEN \* an exception, or the body {}: resp.Ref.ID == ""
                  /\ last' = Called("Page", h, status, TRUE, <<>>, <<>>)
                  /\ UNCHANGED <<refs, refID, minted, handles, seen>>
             ELSE /\ refs' = r.refs /\ refID' = r.refID
                  /\ minted' = IF r.isNew
                               THEN Append(minted,
                                           [id |-> r.ret.id, obj |-> p,
                                            afterClose |-> closed # {}])
                               ELSE minted
                  /\ last' = Called("Page", h, status, RefDecodes(r.ret),
                                    <<r.ret.id>>, <<p>>)
                  /\ IF RefDecodes(r.ret)
                     THEN /\ handles' = handles \cup {r.ret.id}
                          /\ seen' = seen \cup {<<p, r.ret.id>>}
                     ELSE UNCHANGED <<handles, seen>>
    /\ UNCHANGED <<procVars, osVars, flightVars, nObjs, owner, wname, props,
                   closed, cascaded>>

\* A handler that has mapped createRef over the pages the page owned
\* by the time it throws.
PagesMappedBeforeThrow(status, page) ==
    IF page = Undefined THEN <<>>
    ELSE IF status = 500 THEN InOrder(Owned(page))
    ELSE IF page \notin closed THEN Pages(page) ELSE <<>>

\* page.pages.map(createRef): the pages the handler maps.  A handler
\* that throws does so on page.pages, before createRef is called; a
\* closed page that answers has no pages.
PagesMapped(status, page) ==
    IF status = 200 /\ page \notin closed THEN Pages(page) ELSE <<>>

\* WebPage.Pages() -> handleWebpagePages
WebPagePages ==
    /\ pc = "idle" /\ listener # 0
    /\ \E h \in handles : \E status \in StatusesFor(ref(refs, h)) :
         LET page == ref(refs, h)
             ps == PagesMapped(status, page)
             m == MapCreateRef(refs, refID, ps)
             decodes == \A i \in DOMAIN m.rets : RefDecodes(m.rets[i])
         IN  /\ refs' = m.refs /\ refID' = m.refID
             /\ minted' = minted \o m.news
             /\ last' = Called("Pages", h, status, decodes,
                               [i \in DOMAIN m.rets |-> m.rets[i].id], ps)
             /\ IF status = 200 /\ decodes
                THEN /\ handles' = handles \cup
                                   {m.rets[i].id : i \in DOMAIN m.rets}
                     /\ seen' = seen \cup
                                {<<ps[i], m.rets[i].id>> : i \in DOMAIN ps}
                ELSE UNCHANGED <<handles, seen>>
    /\ UNCHANGED <<procVars, osVars, flightVars, nObjs, owner, wname, props,
                   closed, cascaded>>

\* A handler that ends the engine, as with phantom.exit(), when it closes
\* the last page that was open.
RunningAfterPageCloseExits(page) ==
    IF \A o \in 1..nObjs : o = page \/ o \in closed \/ o \in Owned(page)
    THEN running \ {listener}
    ELSE running

\* The processes running when handleWebpageClose has closed page: the
\* handler closes pages and nothing else, and WebPage.Close makes the one
\* request; neither touches the engine process.
RunningAfterPageClose(page) == running

\* WebPage.Close() -> handleWebpageClose
WebPageClose ==
    /\ pc = "idle" /\ listener # 0
    /\ \E h \in handles : \E status \in StatusesFor(ref(refs, h)) :
         LET page == ref(refs, h)
             acts == status = 200 /\ page \notin closed
         IN  /\ last' = [Called("Close", h, status, TRUE, <<>>, <<>>) EXCEPT
                              !.steps = IF acts
                                        THEN handleWebpageCloseSteps(
                                                 refs, h, page, Pages(page))
                                        ELSE <<>>]
             /\ IF acts
                THEN /\ closed' = closed \cup {page} \cup Owned(page)
                     /\ cascaded' = cascaded \cup Owned(page)
                     /\ refs' = DeleteRefs(DeleteComma(refs, h), Pages(page))
                ELSE UNCHANGED <<closed, cascaded, refs>>
             /\ running' = IF acts THEN RunningAfterPageClose(page)
                           ELSE running
    /\ UNCHANGED <<procVars, dirs, shimIn, auxIn, staged, nDirs, nProcs,
                   waited, script, listener, refID, nObjs, owner, wname,
                   props, minted, handles, seen, flightVars>>

\* An accessor handler that draws an id for every request it answers.
AccessorTableCounting(table, counter, status) ==
    [refs |-> table, refID |-> IF status = 200 THEN counter + 1 ELSE counter]

\* refs and refID after handleWebpageCanGoBack: the handler calls ref()
\* and reads a property of the page; it calls neither createRef nor
\* deleteRef.
AccessorTable(table, counter, status) == [refs |-> table, refID |-> counter]

\* An accessor such as WebPage.CanGoBack() -> handleWebpageCanGoBack:
\* var page = ref(...); write {value: page.canGoBack}
WebPageAccessor ==
    /\ pc = "idle" /\ listener # 0
    /\ \E h \in handles : \E status \in StatusesFor(ref(refs, h)) :
         /\ last' = Called("Accessor", h, status, TRUE, <<>>, <<>>)
         /\ refs' = AccessorTable(refs, refID, status).refs
         /\ refID' = AccessorTable(refs, refID, status).refID
    /\ UNCHANGED <<procVars, osVars, nObjs, owner, wname, props, closed,
                   cascaded, minted, handles, seen, flightVars>>

\* ------------------------------------- properties written and read back
\* The values the host writes.  A Rect and a Position are Go structs, a
\* viewport size is the pair (width, height).
Rects == {[Top |-> 0, Left |-> 0, Width |-> 0, Height |-> 0],
          [Top |-> 1, Left |-> 2, Width |-> 3, Height |-> 4],
          [Top |-> 0, Left |-> 2, Width |-> 0, Height |-> 4]}

Sizes == {<<0, 0>>, <<100, 200>>}

Positions == {[Top |-> 0, Left |-> 0], [Top |-> 10, Left |-> 20]}

\* json.Unmarshal into an int field of a struct: the number under the
\* field's key, and the zero value when the object has no such key.
UnmarshalInt(obj, key) == IF key \in DOMAIN obj THEN obj[key] ELSE 0

\* rectJSON{Top: rect.Top, ...} as json.Marshal writes it: the tags of
\* rectJSON have no omitempty, so every key is written.
rectJSON(rect) ==
    [top |-> rect.Top, left |-> rect.Left,
     width |-> rect.Width, height |-> rect.Height]

\* The request bodies of the three setters.
SetClipRectReq(id, rect) == [ref |-> id, rect |-> rectJSON(rect)]

SetViewportSizeReq(id, size) ==
    [ref |-> id, width |-> size[1], height |-> size[2]]

SetScrollPositionReq(id, pos) ==
    [ref |-> id, top |-> pos.Top, left |-> pos.Left]

\* page.clipRect = msg.rect;
handleWebpageSetClipRect(page, msg) == [page EXCEPT !.clipRect = msg.rect]

\* response.write(JSON.stringify({value: page.clipRect}));
handleWebpageClipRect(page) == [value |-> page.clipRect]

\* A handler that leaves the viewport alone unless both sides are positive.
handleWebpageSetViewportSizeIfPositive(page, msg) ==
    IF msg.width > 0 /\ msg.height > 0
    THEN [page EXCEPT !.viewportSize =
                          [width |-> msg.width, height |-> msg.height]]
    ELSE page

\* page.viewportSize = {width: msg.width, height: msg.height};
handleWebpageSetViewportSize(page, msg) ==
    [page EXCEPT !.viewportSize =
                     [width |-> msg.width, height |-> msg.height]]

\* var viewport = page.viewportSize;
\* response.write(JSON.stringify({width: viewport.width, height: ...}));
handleWebpageViewportSize(page) ==
    [width |-> page.viewportSize.width, height |-> page.viewportSize.height]

\* page.scrollPosition = {top: msg.top, left: msg.left};
handleWebpageSetScrollPosition(page, msg) ==
    [page EXCEPT !.scrollPosition = [top |-> msg.top, left |-> msg.left]]

\* var pos = page.scrollPosition;
\* response.write(JSON.stringify({top: pos.top, left: pos.left}));
handleWebpageScrollPosition(page) ==
    [top |-> page.scrollPosition.top, left |-> page.scrollPosition.left]

\* return Rect{Top: resp.Value.Top, Left: resp.Value.Left, ...}
RectOf(resp) ==
    LET value == IF "value" \in DOMAIN resp THEN resp.value
                 ELSE [k \in {} |-> 0]
    IN  [Top |-> UnmarshalInt(value, "top"),
         Left |-> UnmarshalInt(value, "left"),
         Width |-> UnmarshalInt(value, "width"),
         Height |-> UnmarshalInt(value, "height")]

\* return resp.Width, resp.Height
SizeOf(resp) == <<UnmarshalInt(resp, "width"), UnmarshalInt(resp, "height")>>

\* return Position{Top: resp.Top, Left: resp.Left}
PositionOf(resp) ==
    [Top |-> UnmarshalInt(resp, "top"), Left |-> UnmarshalInt(resp, "left")]

\* The setter named set was the call before this one, on the same handle,
\* and succeeded: what it wrote, else nothing.
JustSent(set, h) ==
    IF last.op = set /\ last.ref = h /\ last.kind = "ok" THEN last.sent
    ELSE <<>>

\* A setter: the handler runs on the page found under h, and on a page
\* that is missing or destroyed it may throw before it assigns.
Setter(op, h, v, status, page) ==
    /\ last' = [Called(op, h, status, TRUE, <<>>, <<>>) EXCEPT !.sent = <<v>>]
    /\ props' = IF status = 200 THEN [props EXCEPT ![ref(refs, h)] = page]
                ELSE props

\* A getter: the value decoded from the response of the handler.
Getter(op, set, h, v, status) ==
    last' = [Called(op, h, status, TRUE, <<>>, <<>>) EXCEPT
                 !.got = IF status = 200 THEN <<v>> ELSE <<>>,
                 !.sent = JustSent(set, h)]

\* WebPage.SetClipRect(rect) -> handleWebpageSetClipRect
WebPageSetClipRect ==
    /\ pc = "idle" /\ listener # 0
    /\ \E h \in handles, rect \in Rects :
       \E status \in StatusesFor(ref(refs, h)) :
         Setter("SetClipRect", h, rect, status,
                IF status = 200
                THEN handleWebpageSetClipRect(props[ref(refs, h)],
                                              SetClipRectReq(h, rect))
                ELSE NewPage)
    /\ UNCHANGED <<procVars, osVars, refID, refs, nObjs, owner, wname,
                   closed, cascaded, minted, handles, seen, flightVars>>

\* WebPage.ClipRect() -> handleWebpageClipRect
WebPageClipRect ==
    /\ pc = "idle" /\ listener # 0
    /\ \E h \in handles : \E status \in StatusesFor(ref(refs, h)) :
         Getter("ClipRect", "SetClipRect", h,
                IF status = 200
                THEN RectOf(handleWebpageClipRect(props[ref(refs, h)]))
                ELSE <<>>,
                status)
    /\ UNCHANGED <<procVars, osVars, engineVars, handles, seen,
                   flightVars>>

\* WebPage.SetViewportSize(width, height) -> handleWebpageSetViewportSize
WebPageSetViewportSize ==
    /\ pc = "idle" /\ listener # 0
    /\ \E h \in handles, size \in Sizes :
       \E status \in StatusesFor(ref(refs, h)) :
         Setter("SetViewportSize", h, size, status,
                IF status = 200
                THEN handleWebpageSetViewportSize(
                         props[ref(refs, h)], SetViewportSizeReq(h, size))
                ELSE NewPage)
    /\ UNCHANGED <<procVars, osVars, refID, refs, nObjs, owner, wname,
                   closed, cascaded, minted, handles, seen, flightVars>>

\* WebPage.ViewportSize() -> handleWebpageViewportSize
WebPageViewportSize ==
    /\ pc = "idle" /\ listener # 0
    /\ \E h \in handles : \E status \in StatusesFor(ref(refs, h)) :
         Getter("ViewportSize", "SetViewportSize", h,
                IF status = 200
                THEN SizeOf(handleWebpageViewportSize(props[ref(refs, h)]))
                ELSE <<>>,
                status)
    /\ UNCHANGED <<procVars, osVars, engineVars, handles, seen,
                   flightVars>>

\* WebPage.SetScrollPosition(pos) -> handleWebpageSetScrollPosition
WebPageSetScrollPosition ==
    /\ pc = "idle" /\ listener # 0
    /\ \E h \in handles, pos \in Positions :
       \E status \in StatusesFor(ref(refs, h)) :
         Setter("SetScrollPosition", h, pos, status,
                IF status = 200
                THEN handleWebpageSetScrollPosition(
                         props[ref(refs, h)], SetScrollPositionReq(h, pos))
                ELSE NewPage)
    /\ UNCHANGED <<procVars, osVars, refID, refs, nObjs, owner, wname,
                   closed, cascaded, minted, handles, seen, flightVars>>

\* WebPage.ScrollPosition() -> handleWebpageScrollPosition
WebPageScrollPosition ==
    /\ pc = "idle" /\ listener # 0
    /\ \E h \in handles : \E status \in StatusesFor(ref(refs, h)) :
         Getter("ScrollPosition", "SetScrollPosition", h,
                IF status = 200
                THEN PositionOf(
                         handleWebpageScrollPosition(props[ref(refs, h)]))
                ELSE <<>>,
                status)
    /\ UNCHANGED <<procVars, osVars, engineVars, handles, seen,
                   flightVars>>

\* ------------------------------------------------------------ settings
\* time.Duration counts nanoseconds.
Millisecond == 1000000

\* The resource timeouts written: none, below a millisecond, whole
\* milliseconds, and a millisecond and a half.
Durations == {0, 1, 999999, Millisecond, 1500000, 2000 * Millisecond}

\* The settings handed to SetSettings.
SettingsValues ==
    {[JavascriptEnabled |-> b, LoadImages |-> b,
      LocalToRemoteURLAccessEnabled |-> b,
      UserAgent |-> IF b THEN "Mozilla/5.0" ELSE "",
      Username |-> IF b THEN "susy" ELSE "",
      Password |-> IF b THEN "pass" ELSE "",
      XSSAuditingEnabled |-> b, WebSecurityEnabled |-> b,
      ResourceTimeout |-> d] : b \in BOOLEAN, d \in Durations}

\* json.Unmarshal into a field of a struct: the value under the field's
\* key, and the zero value of the field's type when the key is missing.
Unmarshal(obj, key, zero) == IF key \in DOMAIN obj THEN obj[key] ELSE zero

\* A conversion that rounds up to the next whole millisecond.
ResourceTimeoutJSONRoundUp(d) == (d + Millisecond - 1) \div Millisecond

\* ResourceTimeout: int(settings.ResourceTimeout / time.Millisecond)
ResourceTimeoutJSON(d) == d \div Millisecond

\* webPageSettingsJSON{...} of SetSettings, as json.Marshal writes it.
webPageSettingsJSON(settings) ==
    [javascriptEnabled |-> settings.JavascriptEnabled,
     loadImages |-> settings.LoadImages,
     localToRemoteUrlAccessEnabled |-> settings.LocalToRemoteURLAccessEnabled,
     userAgent |-> settings.UserAgent,
     username |-> settings.Username,
     password |-> settings.Password,
     XSSAuditingEnabled |-> settings.XSSAuditingEnabled,
     webSecurityEnabled |-> settings.WebSecurityEnabled,
     resourceTimeout |-> ResourceTimeoutJSON(settings.ResourceTimeout)]

\* page.settings = msg.settings;
handleWebpageSetSettings(page, msg) == [page EXCEPT !.settings = msg.settings]

\* response.write(JSON.stringify({settings: page.settings}));
handleWebpageSettings(page) == [settings |-> page.settings]

\* return WebPageSettings{...} of Settings, with
\* time.Duration(resp.Settings.ResourceTimeout) * time.Millisecond
WebPageSettings(resp) ==
    LET st == resp.settings
    IN  [JavascriptEnabled |-> Unmarshal(st, "javascriptEnabled", FALSE),
         LoadImages |-> Unmarshal(st, "loadImages", FALSE),
         LocalToRemoteURLAccessEnabled |->
             Unmarshal(st, "localToRemoteUrlAccessEnabled", FALSE),
         UserAgent |-> Unmarshal(st, "userAgent", ""),
         Username |-> Unmarshal(st, "username", ""),
         Password |-> Unmarshal(st, "password", ""),
         XSSAuditingEnabled |-> Unmarshal(st, "XSSAuditingEnabled", FALSE),
         WebSecurityEnabled |-> Unmarshal(st, "webSecurityEnabled", FALSE),
         ResourceTimeout |->
             Unmarshal(st, "resourceTimeout", 0) * Millisecond]

\* WebPage.SetSettings(settings) -> handleWebpageSetSettings
WebPageSetSettings ==
    /\ pc = "idle" /\ listener # 0
    /\ \E h \in handles, settings \in SettingsValues :
       \E status \in StatusesFor(ref(refs, h)) :
         Setter("SetSettings", h, settings, status,
                IF status = 200
                THEN handleWebpageSetSettings(
                         props[ref(refs, h)],
                         [ref |-> h,
                          settings |-> webPageSettingsJSON(settings)])
                ELSE NewPage)
    /\ UNCHANGED <<procVars, osVars, refID, refs, nObjs, owner, wname,
                   closed, cascaded, minted, handles, seen, flightVars>>

\* WebPage.Settings() -> handleWebpageSettings
WebPageSettingsCall ==
    /\ pc = "idle" /\ listener # 0
    /\ \E h \in handles : \E status \in StatusesFor(ref(refs, h)) :
         Getter("Settings", "SetSettings", h,
                IF status = 200
                THEN WebPageSettings(
                         handleWebpageSettings(props[ref(refs, h)]))
                ELSE <<>>,
                status)
    /\ UNCHANGED <<procVars, osVars, engineVars, handles, seen,
                   flightVars>>

\* ------------------------------------------------------- WebPage.Open
\* The statuses page.open passes to its callback.
NavStatuses == {"success", "fail"}

\* WebPage.Open that does not look at the status.
OpenErrIgnoresStatus(nav) == "nil"

\* if resp.Status != "success" { return errors.New("failed") }; return nil
OpenErr(nav) == IF nav # "success" THEN "failed" ELSE "nil"

\* A dispatcher whose every handler has written the response by the time
\* it returns.
AnsweredByHandlerAlways(op, status) == "handler"

\* Who writes the response of a request.  A handler that throws is
\* answered by the dispatcher's catch, and every handler but two writes
\* the response itself, all before the dispatcher function returns;
\* handleWebpageOpen (and handleWebpageIncludeJS) return with nothing
\* written and leave the response to the callback they gave the engine.
AnsweredBy(op, status) ==
    IF op = "Open" /\ status = 200 THEN "callback" ELSE "handler"

\* WebPage.Open(url) -> handleWebpageOpen, up to the return of the
\* handler: ref(msg.ref) and page.open(msg.url, callback).  A handler that
\* throws is answered 500 at once; otherwise nothing is written until the
\* callback runs, and the host waits in http.DefaultClient.Do.
WebPageOpen ==
    /\ pc = "idle" /\ listener # 0 /\ inflight = NoFlight
    /\ \E h \in handles : \E status \in StatusesFor(ref(refs, h)) :
         IF AnsweredBy("Open", status) = "handler"
         THEN /\ last' = Called("Open", h, status, TRUE, <<>>, <<>>)
              /\ UNCHANGED inflight
         ELSE /\ inflight' = [ref |-> h, engine |-> listener,
                              closeRan |-> FALSE]
              /\ UNCHANGED last
    /\ UNCHANGED <<procVars, osVars, engineVars, handles, seen, stale,
                   creates>>

\* A callback that writes to the response of the request answered last, as
\* it would with the response kept in a variable of the shim.
CallbackResponseShared(flight) == last.ref

\* The response the callback of page.open writes to: the callback is a
\* closure of handleWebpageOpen, so it is the response of the request it
\* was registered for.
CallbackResponse(flight) == flight.ref

\* The callback of page.open runs in the engine the request was sent to:
\* response.write(JSON.stringify({status: status})); the host decodes the
\* body and WebPage.Open returns.
OpenCallback ==
    /\ inflight # NoFlight /\ inflight.engine = listener
    /\ \E nav \in NavStatuses :
         LET r == Called("Open", CallbackResponse(inflight), 200, TRUE,
                         <<>>, <<>>)
             e == OpenErr(nav)
         IN  last' = [r EXCEPT !.nav = nav,
                               !.kind = IF e = "nil" THEN "ok" ELSE e,
                               !.err = IF e = "nil" THEN "" ELSE e,
                               !.closeRan = inflight.closeRan]
    /\ inflight' = NoFlight
    /\ UNCHANGED <<procVars, osVars, engineVars, handles, seen, stale,
                   creates>>

\* The engine the request was sent to has been killed: the connection is
\* gone and http.DefaultClient.Do returns an error, with which mustDoJSON
\* panics.
OpenConnLost ==
    /\ inflight # NoFlight /\ inflight.engine # listener
    /\ last' = [Transport("Open", inflight.ref, "EOF")
                EXCEPT !.closeRan = inflight.closeRan]
    /\ inflight' = NoFlight
    /\ UNCHANGED <<procVars, osVars, engineVars, handles, seen, stale,
                   creates>>

RPCNext ==
    \/ CallRefused \/ CreateWebPage \/ EnginePopup
    \/ WebPagePage \/ WebPagePages \/ WebPageClose \/ WebPageAccessor

\* ------------------------------------------------------------ the machine
\* The started phantomjs binary runs shim.js, whose server.listen takes
\* the port when it is free; the shim starts with refID = 0 and refs = {}.
EngineListen ==
    /\ listener = 0
    /\ \E n \in running :
         /\ script[n] \in shimIn
         /\ listener' = n
    /\ EngineFresh
    /\ UNCHANGED <<procVars, dirs, shimIn, auxIn, staged, nDirs, nProcs,
                   running, waited, script, handles, last,
                   flightVars>>

\* The caller stages an auxiliary file in p.Path().
StageAux ==
    /\ pc = "idle" /\ path \in dirs /\ path \notin auxIn
    /\ auxIn' = auxIn \cup {path}
    /\ staged' = staged \cup {path}
    /\ UNCHANGED <<procVars, dirs, shimIn, nDirs, nProcs, running, waited,
                   script, listener, engineVars, hostVars,
                   flightVars>>

ProcessNext ==
    \/ OpenTempDir \/ OpenTempDirErr
    \/ OpenWriteFile \/ OpenWriteFileErr
    \/ OpenStart \/ OpenStartErr
    \/ WaitTickReturn \/ WaitTickRetry \/ TimerFire \/ WaitTimeout
    \/ PingBlocks \/ PingConnLost
    \/ Close
    \/ EngineListen \/ StageAux

\* Every operation of the host, the machine and the engine.
Next ==
    \/ ProcessNext \/ RPCNext
    \/ UnknownRoute
    \/ WebPageOpen \/ OpenCallback \/ OpenConnLost

Spec == Init /\ [][Next]_vars

\* The life cycle of the Process alone: Open with each of its failure
\* points, Close, the engine taking the port; no page is created.
SpecProcess == Init /\ [][ProcessNext]_vars

\* The life cycle of the Process with the progress its scheduling gives:
\* a statement of Open that can run does run, the 30 second timer fires,
\* and a select that finds timer.C ready in every round takes it in the
\* end.  Nothing obliges the peer of a connection to answer or to drop it,
\* so PingConnLost has no fairness, nor has the caller's next call.
SpecProcessFair ==
    /\ Init /\ [][ProcessNext]_vars
    /\ WF_vars(OpenWriteFile \/ OpenWriteFileErr)
    /\ WF_vars(OpenStart \/ OpenStartErr)
    /\ WF_vars(TimerFire)
    /\ WF_vars(WaitTimeout)

\* The first Open of the Process.
OpenFirst == nOpens = 0 /\ OpenTempDir

\* One engine lifetime: a single Open that succeeds, followed by the page
\* calls; the Process is not closed.
PagesNext ==
    \/ OpenFirst \/ OpenWriteFile \/ OpenStart \/ WaitTickReturn
    \/ EngineListen
    \/ RPCNext

SpecPages == Init /\ [][PagesNext]_vars

\* One engine lifetime with navigation: a single Open that succeeds, pages
\* created, navigated with WebPage.Open, read and closed, and requests for
\* paths the dispatcher does not know.
NavigateNext ==
    \/ OpenFirst \/ OpenWriteFile \/ OpenStart \/ WaitTickReturn
    \/ EngineListen
    \/ CreateWebPage \/ WebPageAccessor \/ WebPageClose
    \/ WebPageOpen \/ OpenCallback \/ UnknownRoute

SpecNavigate == Init /\ [][NavigateNext]_vars

\* One engine lifetime with the calls that can fail without a transport
\* failure: pages created, pages they open, Pages() and Close() on live
\* and on closed pages, and requests for unknown paths.
FailuresNext ==
    \/ OpenFirst \/ OpenWriteFile \/ OpenStart \/ WaitTickReturn
    \/ EngineListen
    \/ CreateWebPage \/ EnginePopup \/ WebPagePages \/ WebPageClose
    \/ UnknownRoute

SpecFailures == Init /\ [][FailuresNext]_vars

\* Engine lifetimes one after another: Open, pages created and used, Close,
\* Open again, with calls made at any point in between and a WebPage.Open
\* that may be waiting for its response while Close runs.
ReopenNext ==
    \/ OpenTempDir \/ OpenWriteFile \/ OpenStart \/ WaitTickReturn
    \/ EngineListen \/ Close
    \/ CallRefused \/ CreateWebPage \/ WebPageAccessor
    \/ WebPageOpen \/ OpenCallback \/ OpenConnLost

SpecReopen == Init /\ [][ReopenNext]_vars

\* An Open of a Process that has no process of its own running: the first
\* Open, or an Open after Close.
OpenClosed == cmd \notin running /\ OpenTempDir

\* Engine lifetimes strictly one after another: every Open follows a Close
\* (or is the first), and handles are used in each lifetime.
RestartNext ==
    \/ OpenClosed \/ OpenWriteFile \/ OpenStart \/ WaitTickReturn
    \/ EngineListen \/ Close
    \/ CallRefused \/ CreateWebPage \/ WebPageAccessor

SpecRestart == Init /\ [][RestartNext]_vars

\* CreateWebPage called once.
CreateFirst == nObjs = 0 /\ CreateWebPage

\* One engine lifetime and one page: its clipping rectangle, viewport size
\* and scroll position written and read back, and the page closed.
PropertiesNext ==
    \/ OpenFirst \/ OpenWriteFile \/ OpenStart \/ WaitTickReturn
    \/ EngineListen
    \/ CreateFirst \/ WebPageClose
    \/ WebPageSetClipRect \/ WebPageClipRect
    \/ WebPageSetViewportSize \/ WebPageViewportSize
    \/ WebPageSetScrollPosition \/ WebPageScrollPosition

SpecProperties == Init /\ [][PropertiesNext]_vars

\* One engine lifetime and one page: its settings written and read back,
\* and the page closed.
SettingsNext ==
    \/ OpenFirst \/ OpenWriteFile \/ OpenStart \/ WaitTickReturn
    \/ EngineListen
    \/ CreateFirst \/ WebPageClose
    \/ WebPageSetSettings \/ WebPageSettingsCall

SpecSettings == Init /\ [][SettingsNext]_vars

\* One engine and several callers of CreateWebPage at once: requests are
\* sent in any order and handled in any order, one at a time, also while
\* a WebPage.Open on a page created before waits for its callback.
ConcurrentNext ==
    \/ OpenFirst \/ OpenWriteFile \/ OpenStart \/ WaitTickReturn
    \/ EngineListen
    \/ SendCreate \/ HandleCreate
    \/ WebPageOpen \/ OpenCallback

SpecConcurrent == Init /\ [][ConcurrentNext]_vars

\* The responses mustDoJSON can be given: those of the shim for one page
\* created and closed and for unknown paths, and those of something else
\* on the port before the engine serves it.
ResponsesNext ==
    \/ OpenFirst \/ OpenWriteFile \/ OpenStart \/ WaitTickReturn
    \/ EngineListen
    \/ CreateFirst \/ WebPageClose \/ UnknownRoute
    \/ AnyResponse

SpecResponses == Init /\ [][ResponsesNext]_vars

\* The Process holds nothing: the directory it records does not exist and
\* the process it records does not run.  So it is before the first Open,
\* after a Close and after an Open that failed and rolled back.
HoldsNothing == path \notin dirs /\ cmd \notin running

\* Open called on a Process that holds nothing.
OpenRetry == HoldsNothing /\ OpenTempDir

OpenRetryErr == HoldsNothing /\ OpenTempDirErr

\* Open, with each of its failure points, called again after it failed or
\* after Close, and Close; Open is not called on a Process that is open.
RetryNext ==
    \/ OpenRetry \/ OpenRetryErr
    \/ OpenWriteFile \/ OpenWriteFileErr
    \/ OpenStart \/ OpenStartErr
    \/ WaitTickReturn \/ WaitTickRetry \/ TimerFire \/ WaitTimeout
    \/ Close \/ EngineListen

SpecRetry == Init /\ [][RetryNext]_vars

\* A call the host makes through mustDoJSON and that is answered, or
\* refused, in one step.
HostCall ==
    \/ CallRefused \/ UnknownRoute \/ CreateWebPage
    \/ WebPagePage \/ WebPagePages \/ WebPageClose \/ WebPageAccessor

\* The first window a page opens.
PopupFirst == nObjs = 1 /\ EnginePopup

\* One engine lifetime, one page and one page it owns, with requests of
\* every sort: those whose handlers use createRef or deleteRef, an
\* accessor, a mutator, a navigation, the ping of Open and requests for
\* unknown paths.
TableNext ==
    \/ OpenFirst \/ OpenWriteFile \/ OpenStart \/ WaitTickReturn
    \/ EngineListen
    \/ CreateFirst \/ PopupFirst
    \/ WebPagePage \/ WebPagePages \/ WebPageClose
    \/ WebPageAccessor \/ WebPageSetScrollPosition
    \/ WebPageOpen \/ OpenCallback
    \/ UnknownRoute

SpecTable == Init /\ [][TableNext]_vars

\* The requests whose handlers call createRef, deleteRef or delete.
TableCall ==
    CreateWebPage \/ WebPagePage \/ WebPagePages \/ WebPageClose

\* ------------------------------------------------------------- cookies
\* A time.Time: an instant as seconds and nanoseconds since the zero time
\* (January 1, year 1, 00:00:00 UTC) and a location.  Offsets of locations
\* are whole seconds.
MaxSec == 2

Locations == {"UTC", "Local"}

Offset(loc) == IF loc = "UTC" THEN 0 ELSE 1

Times == [sec : 0..MaxSec, nsec : {0, 500}, loc : Locations]

\* The zero value of time.Time.
ZeroTime == [sec |-> 0, nsec |-> 0, loc |-> "UTC"]

\* Time.IsZero: the instant is the zero instant, whatever the location.
IsZero(t) == t.sec = 0 /\ t.nsec = 0

\* Time.UTC: the same instant with the location UTC.
UTC(t) == [t EXCEPT !.loc = "UTC"]

\* Time.Format(http.TimeFormat), "Mon, 02 Jan 2006 15:04:05 GMT": the wall
\* clock of the time's own location down to the second, followed by the
\* literal text GMT.  Fractions of a second are not printed.
FormatHTTP(t) == toString(t.sec + Offset(t.loc)) \o " GMT"

\* time.Parse(http.TimeFormat, text): the time in UTC, without fraction,
\* that the text prints, or an error.
ParseHTTP(text) ==
    LET hits == {n \in 0..(MaxSec + 1) : toString(n) \o " GMT" = text}
    IN  IF hits = {} THEN [err |-> TRUE, time |-> ZeroTime]
        ELSE [err |-> FALSE,
              time |-> [sec |-> CHOOSE n \in hits : TRUE, nsec |-> 0,
                        loc |-> "UTC"]]

\* The cookies handed to encodeCookieJSON.
Cookies ==
    [Domain : {"", ".example1.com"}, HttpOnly : BOOLEAN, Name : {"NAME1"},
     Path : {"", "/path"}, Secure : BOOLEAN, Value : {"VALUE1"},
     Expires : Times, RawExpires : {""}]

\* encodeCookieJSON that formats the time in its own location.
encodeCookieJSONLocal(v) ==
    [domain |-> v.Domain,
     expires |-> IF ~IsZero(v.Expires) THEN FormatHTTP(v.Expires) ELSE "",
     expiry |-> 0, httponly |-> v.HttpOnly, name |-> v.Name,
     path |-> v.Path, secure |-> v.Secure, value |-> v.Value]

\* func encodeCookieJSON(v *http.Cookie) cookieJSON
encodeCookieJSON(v) ==
    [domain |-> v.Domain,
     expires |-> IF ~IsZero(v.Expires) THEN FormatHTTP(UTC(v.Expires))
                 ELSE "",
     expiry |-> 0, httponly |-> v.HttpOnly, name |-> v.Name,
     path |-> v.Path, secure |-> v.Secure, value |-> v.Value]

\* func decodeCookieJSON(v cookieJSON) *http.Cookie; `panics` when
\* time.Parse returns an error.
decodeCookieJSON(v) ==
    LET parsed == IF v.expires # "" THEN ParseHTTP(v.expires)
                  ELSE [err |-> FALSE, time |-> ZeroTime]
    IN  [Domain |-> v.domain, HttpOnly |-> v.httponly, Name |-> v.name,
         Path |-> v.path, Secure |-> v.secure, Value |-> v.value,
         Expires |-> parsed.time, RawExpires |-> v.expires,
         panics |-> parsed.err]

\* A cookie is encoded, as WebPage.SetCookies and AddCookie do.
EncodeCookie ==
    /\ last.op \in {"none", "decodeCookieJSON"}
    /\ \E c \in Cookies :
         last' = [NoCall EXCEPT !.op = "encodeCookieJSON", !.sent = <<c>>,
                                !.got = <<encodeCookieJSON(c)>>]
    /\ UNCHANGED <<procVars, osVars, engineVars, handles, seen, flightVars>>

\* The encoded cookie is decoded, as WebPage.Cookies does with what the
\* engine returns.
DecodeCookie ==
    /\ last.op = "encodeCookieJSON"
    /\ last' = [last EXCEPT !.op = "decodeCookieJSON",
                            !.got = <<decodeCookieJSON(last.got[1])>>]
    /\ UNCHANGED <<procVars, osVars, engineVars, handles, seen, flightVars>>

\* Cookies drawn from Cookies, encoded and decoded again.
SpecCookies == Init /\ [][EncodeCookie \/ DecodeCookie]_vars

\* A WebPage method: a request on a handle, or the response to one.
WebPageCall ==
    \/ WebPagePage \/ WebPagePages \/ WebPageClose \/ WebPageAccessor
    \/ WebPageOpen \/ OpenCallback \/ OpenConnLost
    \/ WebPageSetClipRect \/ WebPageClipRect
    \/ WebPageSetViewportSize \/ WebPageViewportSize
    \/ WebPageSetScrollPosition \/ WebPageScrollPosition
    \/ WebPageSetSettings \/ WebPageSettingsCall

\* ================================================================ claims
Last(sq) == sq[Len(sq)]

\* The log entries of p.cmd.Wait(), without and with an error.
Waits == {"Wait", "Wait_err"}

\* The errors Open returns from its four failure points.
OpenErrors == {"tempdir", "writefile", "start", "timeout"}

\* No os.RemoveAll of the call that ran last was refused by the operating
\* system: the only faults are those of Open's own steps.
RemovalNotRefused == "RemoveAll_err" \notin Range(log)

FailedPings == {"ping_refused", "ping_non200"}

C7_OpenNilMeansReady ==
    (call = "Open" /\ pc = "idle" /\ ret = "nil")
    => /\ curDir # 0 /\ path = curDir
       /\ curDir \in dirs /\ curDir \in shimIn
       /\ curProc # 0 /\ cmd = curProc
       /\ script[curProc] = curDir
       /\ Len(log) >= 4
       /\ SubSeq(log, 1, 3) = <<"TempDir", "WriteFile", "Start">>
       /\ Last(log) = "ping_200"

\* Open returned nil after a ping that failed and one that was answered.
C7_Witness ==
    /\ call = "Open" /\ pc = "idle" /\ ret = "nil"
    /\ Len(log) >= 5

\* C8: the Close that follows a successful Open kills the process, waits
\* for it and then removes the directory; when it returns nil the process
\* is not running and the directory, with the shim and any staged
\* auxiliary files, does not exist.
C8_CloseAfterOpen ==
    (call = "Close" /\ prev = "Open")
    => /\ Len(log) = 3
       /\ log[1] = "Kill" /\ log[2] \in Waits
       /\ log[3] \in {"RemoveAll", "RemoveAll_err"}
       /\ cmd \notin running /\ cmd \in waited
       /\ ret = "nil" =>
            /\ path \notin dirs
            /\ path \notin shimIn /\ path \notin auxIn

\* Close returned nil after a successful Open whose directory held staged
\* auxiliary files.
C8_Witness ==
    /\ call = "Close" /\ prev = "Open" /\ ret = "nil"
    /\ path \in staged

C11_OpenReturnsAfterDeadline ==
    (pc # "idle" /\ timerFired) ~> (pc = "idle")

\* The operations that address a page through a handle.
HandleOps == {"Page", "Pages", "Close", "Accessor"}

\* C2: a page observed again through Pages() or Page(name) is handed to
\* the host under the id it was handed out with before, and the reference
\* table holds exactly one entry for it.
C2_SameHandleEveryObservation ==
    (last.op \in {"Page", "Pages"} /\ last.status = 200 /\ last.objs # <<>>)
    => /\ last.kind = "ok"
       /\ \A i \in DOMAIN last.objs :
            /\ Cardinality(KeysOf(refs, last.objs[i])) = 1
            /\ \A pair \in seen :
                 pair[1] = last.objs[i] => pair[2] = last.ids[i]

\* C3: after a Close of a live handle has returned successfully, the
\* handle's id is absent from the reference table; once every handle that
\* was issued has been closed, the table is empty.
C3_CloseRemovesEntry ==
    /\ (last.op = "Close" /\ last.kind = "ok" /\ ~last.wasClosed)
       => last.ref \notin DOMAIN refs
    /\ (minted # <<>> /\ \A i \in DOMAIN minted : minted[i].obj \in closed)
       => refs = EmptyRefs

\* C4: every operation on a handle whose page has been closed, a second
\* Close included, fails with NotFound.
C4_ClosedHandleNotFound ==
    (last.op \in HandleOps /\ last.wasClosed) => last.kind = "notfound"

\* C5: after the Close of a page that owns pages, an operation on the
\* handle of an owned page fails with NotFound.
C5_CascadeInvalidatesChildren ==
    (last.op \in HandleOps /\ last.wasCascaded) => last.kind = "notfound"

\* The number whose decimal text is the id.
IdNumber(id) == CHOOSE n \in 0..(Len(minted) + 1) : toString(n) = id

\* C6: within one engine lifetime each newly minted id is greater than all
\* ids minted before, no id is issued for two objects, and an id in the
\* table resolves to the object it was minted for and to no later one.
C6_IdsNeverReused ==
    /\ \A i, j \in DOMAIN minted :
         i < j => /\ IdNumber(minted[i].id) < IdNumber(minted[j].id)
                  /\ minted[i].obj # minted[j].obj
    /\ \A i \in DOMAIN minted : IdNumber(minted[i].id) <= refID
    /\ \A k \in DOMAIN refs :
         \E i \in DOMAIN minted : minted[i].id = k /\ minted[i].obj = refs[k]

\* An id was minted after the page of an earlier id, still held by the
\* host, had been closed.
C6_Witness ==
    \E i, j \in DOMAIN minted :
      /\ i < j
      /\ minted[i].obj \in closed /\ minted[i].id \in handles
      /\ minted[j].afterClose /\ minted[j].obj > minted[i].obj

\* The ways a call fails in the transport: no response, a 404, a 500, a
\* body that does not decode.
FailureKinds == {"transport", "notfound", "exception", "unmarshal"}

\* C12: a call that ends in a transport failure, a 404, a 500 or a
\* decoding failure hands its caller an error value; it does not panic.
C12_FailuresAreReturned ==
    last.kind \in FailureKinds => ~last.panics

\* The error values of an engine exception and of a transport failure.
ExceptionErrors ==
    {u \o ": " \o ExceptionMessage : u \in Routes \cup UnknownPaths}

TransportErrors == {"connection refused", "EOF"}

\* C13: a request for a path that is not a route of the dispatcher is
\* answered 404 and leaves the reference table as it was; at the host it
\* ends as not-found, with the error "not found: <path>", which is the
\* error of no engine exception and of no transport failure, and no call
\* answered otherwise ends as not-found.
C13_UnknownRouteIsNotFound ==
    /\ [](last.op = "Unknown"
            => /\ last.url \notin Routes
               /\ last.status = 404
               /\ last.kind = "notfound"
               /\ last.err = "not found: " \o last.url
               /\ last.err \notin ExceptionErrors \cup TransportErrors)
    /\ [](last.kind = "notfound" <=> last.status = 404)
    /\ [][~UNCHANGED <<refs, refID>> => ~UnknownRoute]_vars

\* An unknown path was requested while the table held entries.
C13_Witness ==
    /\ last.op = "Unknown" /\ last.kind = "notfound"
    /\ refs # EmptyRefs

C15_UndecodableBodyIsAnError ==
    (last.status = 200 /\ ~last.decodes)
    => /\ last.kind = "unmarshal"
       /\ last.err = "unmarshal error"
       /\ last.got = <<>>

\* Pages() was answered with two refs, not all of them decodable.
C15_Witness ==
    /\ last.op = "Pages" /\ last.status = 200 /\ ~last.decodes
    /\ Len(last.ids) = 2

\* C16: WebPage.Open returns nil exactly when the callback reported
\* "success"; any other status is returned as the error "failed", which is
\* a returned value and no transport failure; after it a page that was
\* live is still live under its handle, and the answer of the callback
\* leaves the reference table as it was.
C16_OpenNilIffSuccess ==
    /\ []((last.op = "Open" /\ last.status = 200)
            => /\ (last.kind = "ok") <=> (last.nav = "success")
               /\ (last.nav # "success")
                  => /\ last.kind = "failed" /\ last.err = "failed"
                     /\ ~last.panics
                     /\ ~last.wasClosed
                        => /\ last.ref \in DOMAIN refs
                           /\ refs[last.ref] \notin closed)
    /\ [][OpenCallback => UNCHANGED <<refs, refID, closed>>]_vars

\* A navigation of a live page failed while the table held another page.
C16_Witness ==
    /\ last.op = "Open" /\ last.kind = "failed" /\ ~last.wasClosed
    /\ Cardinality(DOMAIN refs) >= 2

\* C17: Page(name) on a live page returns nil, without an error, when the
\* page owns no page of that name, and otherwise a handle whose id
\* resolves to the owned page, however often it is called.
C17_PageByName ==
    (last.op = "Page" /\ last.status = 200 /\ ~last.wasClosed)
    => /\ last.kind = "ok"
       /\ last.objs = <<>> => last.got = <<>>
       /\ last.objs # <<>>
          => /\ Len(last.got) = 1
             /\ ref(refs, last.got[1]) = last.objs[1]

\* C18: a call during whose round trip Close ran ends in a transport
\* failure.
C18_CallAcrossCloseFails ==
    last.closeRan => last.kind = "transport"

\* C19: a call on a handle that the host held when Close ran does not
\* succeed.
C19_HandlesDieWithClose ==
    last.wasStale => last.kind \notin {"ok", "failed"}

\* C20: a call that ends as not-found or as an engine exception leaves
\* the reference table, the pages behind every handle, the handles and
\* the Process's path and cmd as they were: a step that changes any of
\* them and ends with such a failure on record is not a call.
C20_FailedCallChangesNothing ==
    [][(/\ last'.kind \in {"notfound", "exception"}
        /\ ~UNCHANGED <<refs, refID, closed, cascaded, owner, wname, nObjs,
                        handles, path, cmd>>)
       => ~HostCall]_vars

\* Pages() on a closed page that owned a page threw, with two handles
\* held.
C20_Witness ==
    /\ last.op = "Pages" /\ last.kind = "exception"
    /\ Owned(ref(refs, last.ref)) # {}
    /\ Cardinality(handles) >= 2

\* What Close did for the process and for the directory.
ProcessSteps == {"Kill", "Kill_err", "Wait", "Wait_err"}
DirectorySteps == {"RemoveAll", "RemoveAll_err"}

\* C21 as stated: Close does nothing for a nil p.cmd and nothing for an
\* empty p.path, and it returns an error whenever the wait for the process
\* or the removal of the directory failed.
C21_CloseReportsWaitAndRemoval ==
    call = "Close"
    => /\ cmd = 0 => Range(log) \cap ProcessSteps = {}
       /\ path = 0 => Range(log) \cap DirectorySteps = {}
       /\ Range(log) \cap {"Wait_err", "RemoveAll_err"} # {}
          => ret \notin {"nil", "none"}

\* C21 as amended: Close does nothing for a nil p.cmd and nothing for an
\* empty p.path, and it returns an error whenever the kill of the process
\* or the removal of the directory failed; the error of the wait is not
\* returned.
C21_CloseReportsKillAndRemoval ==
    call = "Close"
    => /\ cmd = 0 => Range(log) \cap ProcessSteps = {}
       /\ path = 0 => Range(log) \cap DirectorySteps = {}
       /\ Range(log) \cap {"Kill_err", "RemoveAll_err"} # {}
          => ret \notin {"nil", "none"}
       /\ (Range(log) \cap {"Kill_err", "RemoveAll_err"} = {})
          => ret = "nil"

\* Close of a Process with a directory and no process found the removal
\* refused and returned its error.
C21_Witness ==
    /\ call = "Close" /\ cmd = 0 /\ path # 0
    /\ log = <<"RemoveAll_err">> /\ ret = "remove"

Getters == {"ClipRect", "ViewportSize", "ScrollPosition"}

C24_ChildrenBeforeParent ==
    (last.op = "Close" /\ Len(last.steps) > 2)
    => LET s == last.steps
           parent == s[1].obj
       IN  /\ \A i, j \in DOMAIN s :
                 (s[i].owned /\ s[j].act = "delete") => i < j
           /\ \A i \in DOMAIN s : \A j \in DOMAIN s :
                 (s[j].owned /\ parent \notin s[i].held)
                 => s[j].obj \notin s[i].held
           /\ \A j \in DOMAIN s :
                 s[j].owned => s[j].obj \notin s[Len(s)].held

\* C25: the teardown of a launch (Kill, Wait, RemoveAll) runs once.  The
\* Close after a successful Open runs it; a Close that follows a Close, or
\* an Open that failed and rolled back, finds it done and runs none of its
\* steps again.
C25_TeardownExactlyOnce ==
    /\ (call = "Close" /\ prev = "Open")
       => /\ Range(log) \cap {"Kill", "Kill_err"} # {}
          /\ Range(log) \cap Waits # {}
          /\ Range(log) \cap DirectorySteps # {}
    /\ (call = "Close" /\ prev \in {"Close", "failed Open"})
       => log = <<>>

\* C26: whatever Open and Close calls were made, Open on an open Process
\* included, no directory exists and no process runs that the Process
\* does not record, and once a Close has returned none of the directories
\* created and none of the processes started by the Opens before it is
\* left (but for a directory whose removal the operating system refused).
C26_NothingOutlivesClose ==
    /\ dirs \subseteq {path}
    /\ running \subseteq {cmd}
    /\ (call = "Close" /\ RemovalNotRefused) => dirs = {} /\ running = {}

C28_OpenAnsweredOnceByItsCallback ==
    /\ []((last.op = "Open" /\ last.kind \in {"ok", "failed"})
            => /\ last.status = 200
               /\ last.nav \in NavStatuses
               /\ last.during = last.ref)
    /\ []((last.op = "Open" /\ last.status = 500)
            => /\ last.nav = "" /\ last.during = ""
               /\ last.kind = "exception")
    /\ [][(inflight # NoFlight /\ last' # last /\ last'.op = "Open")
            => /\ inflight' = NoFlight
               /\ last'.ref = inflight.ref
               /\ last'.status = 200]_vars
    /\ [][(last' # last /\ last'.op = "Open" /\ last'.status = 500)
            => inflight = NoFlight /\ inflight' = NoFlight]_vars

\* A navigation failure came back in the response of the request's own
\* callback, after another page had been created.
C28_Witness ==
    /\ last.op = "Open" /\ last.nav = "fail" /\ last.err = "failed"
    /\ last.during = last.ref
    /\ nObjs >= 2

\* C29: p.path, when not empty, names a directory that an Open created,
\* and p.cmd, when not nil, a process that an Open started; a failed
\* cmd.Start() records no process handle and starts nothing; and a process
\* is started only when the directory of the same call exists, is the one
\* recorded, and holds the shim script.
C29_RecordedMeansCreated ==
    /\ []((path # 0 => path \in 1..nDirs) /\ (cmd # 0 => cmd \in 1..nProcs))
    /\ [][(log' # log /\ "Start_err" \in Range(log'))
            => (cmd' = cmd /\ nProcs' = nProcs /\ running' \subseteq running)
       ]_vars
    /\ [][nProcs' # nProcs
            => /\ curDir \in dirs /\ curDir \in shimIn /\ path = curDir
               /\ Range(log) = {"TempDir", "WriteFile"}
               /\ cmd' = nProcs' /\ cmd' \in running'
               /\ script'[cmd'] = curDir]_vars

\* An Open failed at cmd.Start() on a Process that had been opened and
\* closed: p.path is the new directory, p.cmd still the first process.
C29_Witness ==
    /\ call = "Open" /\ ret = "start"
    /\ path = 2 /\ cmd = 1 /\ nProcs = 1

\* C30: when the Close of a page has returned, no page it owned, directly
\* or through pages it owned, has an entry in the reference table: the
\* handler has dereferenced each of them.
C30_CloseRemovesAllOwned ==
    (last.op = "Close" /\ last.steps # <<>>)
    => \A o \in Owned(last.steps[1].obj) :
         /\ \E i \in DOMAIN last.steps :
               last.steps[i].act = "deleteRef" /\ last.steps[i].obj = o
         /\ KeysOf(refs, o) = {}

C32_WebPageLeavesProcessAlone ==
    [][~UNCHANGED <<path, cmd, dirs, nDirs, nProcs, running, waited>>
       => ~WebPageCall]_vars

\* WebPage.Close threw on a closed page, and the engine that the Process
\* records is running and serving, its directory in place.
C32_Witness ==
    /\ last.op = "Close" /\ last.kind = "exception"
    /\ cmd \in running /\ listener = cmd /\ path \in dirs

\* C33: the reference table and the id counter change only in the
\* handling of a Create, Page, Pages or Close request; an accessor, a
\* mutator, a navigation and its callback, a ping and a request for an
\* unknown path leave both as they were, and the host gains a handle only
\* as an id the table hands it in such a request.
C33_TableChangesOnlyInItsHandlers ==
    /\ [][~UNCHANGED <<refs, refID>> => TableCall]_vars
    /\ [][(handles' # handles) => (TableCall /\ handles' \subseteq DOMAIN refs')
       ]_vars

\* A mutator was answered for one of two pages that share a table of two
\* entries, the second handed out by Page.
C33_Witness ==
    /\ last.op = "SetScrollPosition" /\ last.status = 200
    /\ refID = 2 /\ Cardinality(DOMAIN refs) = 2
    /\ \E m \in Range(minted) : owner[m.obj] # 0

\* C34: decodeCookieJSON(encodeCookieJSON(c)) has c's Domain, HttpOnly,
\* Name, Path, Secure and Value; for a non-zero c.Expires its Expires is
\* c.Expires cut to the second, in UTC, and its RawExpires the HTTP-date
\* text of that time; for a zero c.Expires its Expires is zero and its
\* RawExpires empty.
C34_CookieRoundTrip ==
    last.op = "decodeCookieJSON"
    => LET c == last.sent[1]
           d == last.got[1]
       IN  /\ ~d.panics
           /\ d.Domain = c.Domain /\ d.HttpOnly = c.HttpOnly
           /\ d.Name = c.Name /\ d.Path = c.Path
           /\ d.Secure = c.Secure /\ d.Value = c.Value
           /\ ~IsZero(c.Expires)
              => /\ d.Expires = [sec |-> c.Expires.sec, nsec |-> 0,
                                 loc |-> "UTC"]
                 /\ d.RawExpires = FormatHTTP(d.Expires)
           /\ IsZero(c.Expires)
              => d.Expires = ZeroTime /\ d.RawExpires = ""

\* A cookie whose expiry has a fraction of a second and a location other
\* than UTC went through both functions.
C34_Witness ==
    /\ last.op = "decodeCookieJSON"
    /\ last.sent[1].Expires = [sec |-> 1, nsec |-> 500, loc |-> "Local"]
    /\ last.got[1].RawExpires = "1 GMT"

\* C35 as stated: Settings called on a live handle right after SetSettings
\* succeeded on that handle returns the settings written, whatever the
\* resource timeout.
C35_SettingsReadBackEqual ==
    (last.op = "Settings" /\ last.sent # <<>> /\ ~last.wasClosed)
    => /\ last.kind = "ok"
       /\ last.got = last.sent

\* C35: Settings called on a live handle right after SetSettings succeeded
\* on that handle returns the settings written with the resource timeout
\* cut down to a whole number of milliseconds: equal settings when the
\* timeout written is a whole number of milliseconds.
C35_SettingsReadBackToMillisecond ==
    (last.op = "Settings" /\ last.sent # <<>> /\ ~last.wasClosed)
    => /\ last.kind = "ok"
       /\ last.got =
             << [last.sent[1] EXCEPT
                    !.ResourceTimeout =
                        (@ \div Millisecond) * Millisecond] >>
       /\ last.sent[1].ResourceTimeout % Millisecond = 0
          => last.got = last.sent

\* Settings with a timeout of a millisecond and a half were written and
\* read back with a timeout of one millisecond.
C35_Witness ==
    /\ last.op = "Settings" /\ last.kind = "ok" /\ ~last.wasClosed
    /\ last.sent # <<>>
    /\ last.sent[1].ResourceTimeout = 1500000
    /\ last.got[1].ResourceTimeout = Millisecond

\* C36: Close of a Process that records a process and a directory kills,
\* waits and removes, in that order, whether or not the kill or the wait
\* failed; it returns the error of the kill when the kill failed, else the
\* error of the removal when the removal failed.
C36_CloseAttemptsEveryStep ==
    (call = "Close" /\ cmd # 0 /\ path # 0)
    => /\ Len(log) = 3
       /\ log[1] \in {"Kill", "Kill_err"}
       /\ log[2] \in Waits
       /\ log[3] \in DirectorySteps
       /\ log[1] = "Kill_err" => ret = "kill"
       /\ (log[1] = "Kill" /\ log[3] = "RemoveAll_err") => ret = "remove"

\* The kill failed, the wait and the removal were still made, the removal
\* failed too, and Close returned the error of the kill.
C36_Witness ==
    /\ call = "Close"
    /\ log = <<"Kill_err", "Wait_err", "RemoveAll_err">>
    /\ ret = "kill"

\* C37: a response with a status other than 404 and 500 ends the call
\* normally when the method passed no resp, whatever the body; when it
\* passed one the body is decoded, and the call ends normally exactly when
\* the body decodes.
C37_OtherStatusesAreSuccess ==
    (last.op # "none" /\ last.kind # "transport"
       /\ last.status \notin {404, 500})
    => /\ last.kind \notin {"notfound", "exception"}
       /\ ~Expects(last.op) => (last.kind = "ok" /\ ~last.panics)
       /\ Expects(last.op)
          => /\ last.decodes => (last.kind = "ok" /\ ~last.panics)
             /\ ~last.decodes => last.kind = "unmarshal"

\* A call that expects no result was answered 503 with a body that is not
\* JSON, and returned normally.
C37_Witness ==
    /\ last.op = "Close" /\ last.status = 503 /\ ~last.decodes
    /\ last.kind = "ok" /\ ~last.panics

\* C38: in every state of the engine no two keys of the reference table
\* hold the same object, and every key is the decimal text of a number
\* from 1 to the id counter.
C38_TableWellFormed ==
    /\ \A k1, k2 \in DOMAIN refs : refs[k1] = refs[k2] => k1 = k2
    /\ \A k \in DOMAIN refs : \E n \in 1..refID : toString(n) = k

\* A page already in the table was observed again through Page(name), with
\* two pages in the table, one of them closed.
C38_Witness ==
    /\ last.op = "Page" /\ last.kind = "unmarshal" /\ last.objs # <<>>
    /\ Cardinality(KeysOf(refs, last.objs[1])) = 1
    /\ refID >= 2 /\ Cardinality(DOMAIN refs) = refID
    /\ \E k \in DOMAIN refs : refs[k] \in closed

\* The concurrent callers whose CreateWebPage has returned.
Done == {c \in DOMAIN creates : creates[c].state = "done"}

\* C39: of the CreateWebPage calls made at the same time, each one that
\* has returned received a handle, no two received the same id, and the
\* table holds each created page under the id its caller received and
\* under no other; the table has one entry per page created.
C39_ConcurrentCreatesDistinct ==
    /\ \A c \in Done :
         /\ creates[c].kind = "ok"
         /\ KeysOf(refs, creates[c].obj) = {creates[c].id}
    /\ \A c, d \in Done : c # d => creates[c].id # creates[d].id
    /\ Cardinality(DOMAIN refs) = nObjs

\* Three requests were waiting at the same time, all sent before any was
\* handled, and all three callers have their handles.
C39_Witness ==
    /\ Done = Callers
    /\ \A c \in Callers : creates[c].at = 0
    /\ Cardinality({creates[c].id : c \in Callers}) = MaxCallers

====
